---- MODULE Spec2Model ----
(***************************************************************************)
(* A model of the question answering service of src/index.js: the /teach   *)
(* and /nash handlers over the responses table and the NLP manager, the    *)
(* API key file with its generate / validate / sweep operations, the       *)
(* startup load and the two interval timers.                               *)
(*                                                                         *)
(* JavaScript runs every synchronous stretch of a handler to its next      *)
(* await without interleaving, so an action is one such stretch; the work  *)
(* the sqlite3 thread pool and the manager do between an await and its     *)
(* continuation is a step of its own.                                      *)
(***************************************************************************)
EXTENDS Integers, Sequences, FiniteSets, TLC

\* ------------------------------------------------------------------ bounds
MaxTime == 8
MaxKeys == 2
MaxTeach == 2
MaxRows == 2
MaxFaults == 1
MaxInFlight == 2

\* --------------------------------------------------------------- constants
API_KEY_EXPIRY_DAYS == 7
FuseThreshold100 == 30
FuseDistance == 100

NoParam == "<missing>"      \* a query parameter the request does not carry
None == "<none>"            \* undefined / null
NoKey == 0                  \* the request carries no apiKey

\* ------------------------------------------------------------------ inputs
Questions == {"hello", "Current time in UTC"}
Answers == {"hi", "yo"}
Prompts == {"hello", "hellp", "zzz", "Current time in UTC", "current time in Mars?"}
NashLangs == {"fr", NoParam}
TeachIds == 1..MaxTeach

Langs == <<"en", "tl", "es", "fr">>
LangSet == {Langs[i] : i \in 1..Len(Langs)}

\* ------------------------------------------------------------------- text
\* The texts of the model, spelled out so that the regular expression, the
\* case folding and the approximate search work on their characters.
Chars(s) ==
  CASE s = "hello" -> <<"h","e","l","l","o">>
    [] s = "Hello" -> <<"H","e","l","l","o">>
    [] s = "hellp" -> <<"h","e","l","l","p">>
    [] s = "zzz" -> <<"z","z","z">>
    [] s = "Current time in UTC" ->
         <<"C","u","r","r","e","n","t"," ","t","i","m","e"," ","i","n"," ","U","T","C">>
    [] s = "current time in Mars?" ->
         <<"c","u","r","r","e","n","t"," ","t","i","m","e"," ","i","n"," ","M","a","r","s","?">>
    [] s = "current time in " ->
         <<"c","u","r","r","e","n","t"," ","t","i","m","e"," ","i","n"," ">>
    [] s = "hi" -> <<"h","i">>
    [] s = "yo" -> <<"y","o">>

UpperCase == <<"A","B","C","D","E","F","G","H","I","J","K","L","M",
               "N","O","P","Q","R","S","T","U","V","W","X","Y","Z">>
LowerCase == <<"a","b","c","d","e","f","g","h","i","j","k","l","m",
               "n","o","p","q","r","s","t","u","v","w","x","y","z">>
Digits == {"0","1","2","3","4","5","6","7","8","9"}

ToLower(c) ==
  IF \E i \in 1..Len(UpperCase) : UpperCase[i] = c
  THEN LowerCase[CHOOSE i \in 1..Len(UpperCase) : UpperCase[i] = c]
  ELSE c

LowerSeq(cs) == [i \in 1..Len(cs) |-> ToLower(cs[i])]

\* [\w\/\-\s] : a word character, a slash, a hyphen or white space.
IsWordChar(c) ==
  \/ \E i \in 1..Len(UpperCase) : UpperCase[i] = c \/ LowerCase[i] = c
  \/ c \in Digits
  \/ c = "_"
IsSpace(c) == c \in {" ", "\t", "\n"}
InZoneClass(c) == IsWordChar(c) \/ c = "/" \/ c = "-" \/ IsSpace(c)

TimeLiteral == Chars("current time in ")

\* The literal part of /current time in ([\w\/\-\s]+)/i found at position i,
\* ignoring case, and followed by at least one character of the class.
TimePatternAt(cs, i) ==
  /\ i + Len(TimeLiteral) <= Len(cs)
  /\ \A k \in 1..Len(TimeLiteral) : ToLower(cs[i + k - 1]) = TimeLiteral[k]
  /\ InZoneClass(cs[i + Len(TimeLiteral)])

\* The end of the longest run of class characters that starts at from.
RECURSIVE RunEnd(_, _)
RunEnd(cs, from) ==
  IF from < Len(cs) /\ InZoneClass(cs[from + 1]) THEN RunEnd(cs, from + 1) ELSE from

\* prompt.match(/current time in ([\w\/\-\s]+)/i): the capture group of the
\* leftmost match, or NoMatch (the group is never empty).
NoMatch == <<>>
timezoneMatch(cs) ==
  LET hits == {i \in 1..Len(cs) : TimePatternAt(cs, i)}
  IN  IF hits = {} THEN NoMatch
      ELSE LET i == CHOOSE h \in hits : \A g \in hits : h <= g
               b == i + Len(TimeLiteral)
           IN  SubSeq(cs, b, RunEnd(cs, b))

\* timezoneMatch[1].replace(/\s/g, '_')
SpacesToUnderscores(cs) == [i \in 1..Len(cs) |-> IF IsSpace(cs[i]) THEN "_" ELSE cs[i]]
\* timezone.replace(/_/g, ' ')
UnderscoresToSpaces(cs) == [i \in 1..Len(cs) |-> IF cs[i] = "_" THEN " " ELSE cs[i]]

\* The zones of the time zone database the model knows.
Zones == {<<"U","T","C">>, <<"A","s","i","a","/","M","a","n","i","l","a">>}
\* moment.tz.zone(name): the lookup ignores case.
ZoneExists(cs) == \E z \in Zones : LowerSeq(z) = LowerSeq(cs)

\* generateTimeResponse(timezone) at time t.
generateTimeResponse(timezone, t) ==
  IF ~ZoneExists(timezone) THEN [kind |-> "invalidTimezone"]
  ELSE [kind |-> "time", zone |-> UnderscoresToSpaces(timezone), at |-> t]

\* ------------------------------------------------------------ fuzzy search
Min2(a, b) == IF a <= b THEN a ELSE b
Max2(a, b) == IF a >= b THEN a ELSE b

\* One column of the approximate search of pattern p in a text, as a sequence
\* whose entry i + 1 is the least number of edits that turn p[1..i] into some
\* stretch of the text ending at the current character c. acc holds the
\* entries computed so far; a stretch may start anywhere, so entry 1 is 0.
RECURSIVE NextColumn(_, _, _, _)
NextColumn(old, p, c, acc) ==
  IF Len(acc) = Len(p) + 1 THEN acc
  ELSE LET i == Len(acc)
           v == Min2(old[i] + (IF p[i] = c THEN 0 ELSE 1),
                     Min2(old[i + 1] + 1, acc[i] + 1))
       IN  NextColumn(old, p, c, Append(acc, v))

\* The score, in hundredths, of a place that ends at character j of the text
\* with e edits: the share of the pattern in error plus the distance of the
\* place from the start of the text over FuseDistance.
PlaceScore100(e, j, m) == (100 * e) \div m + (100 * Max2(0, j - m)) \div FuseDistance

\* The best score over the places ending at character j or later, col being
\* the column at character j and best the best score before it.
RECURSIVE BestPlace(_, _, _, _, _)
BestPlace(p, t, j, col, best) ==
  LET here == Min2(best, PlaceScore100(col[Len(p) + 1], j, Len(p)))
  IN  IF j = Len(t) THEN here
      ELSE BestPlace(p, t, j + 1, NextColumn(col, p, t[j + 1], <<0>>), here)

\* The score of the best place of the pattern in the text. Fuse ignores case.
FuseScore100(pattern, text) ==
  LET p == LowerSeq(pattern)
      t == LowerSeq(text)
  IN  BestPlace(p, t, 0, [i \in 1..(Len(p) + 1) |-> i - 1], 100)

\* new Fuse(questions, { threshold: 0.3 }).search(prompt): the indexes of the
\* entries within the threshold, best score first, earlier entry first among
\* equal scores.
RECURSIVE SortByScore(_, _)
SortByScore(idx, score) ==
  IF idx = {} THEN <<>>
  ELSE LET i == CHOOSE a \in idx : \A b \in idx :
                  score[a] < score[b] \/ (score[a] = score[b] /\ a <= b)
       IN  <<i>> \o SortByScore(idx \ {i}, score)

\* The search without the threshold: every entry is a hit.
FuseSearchNoThreshold(questions, prompt) ==
  LET score == [i \in 1..Len(questions) |-> FuseScore100(Chars(prompt), Chars(questions[i]))]
      order == SortByScore(1..Len(questions), score)
  IN  [k \in 1..Len(order) |-> questions[order[k]]]

FuseSearch(questions, prompt) ==
  LET score == [i \in 1..Len(questions) |-> FuseScore100(Chars(prompt), Chars(questions[i]))]
      hits == {i \in 1..Len(questions) : score[i] <= FuseThreshold100}
      order == SortByScore(hits, score)
  IN  [k \in 1..Len(order) |-> questions[order[k]]]

\* ------------------------------------------------------------------- state
VARIABLES
  now,        \* the clock, in days
  apiKeys,    \* the content of apikeys.json: [api_key, expiration] records
  nextKey,    \* the number of keys generated so far (the random tokens are fresh)
  issued,     \* history: every key generated, with the day it was generated
  responses,  \* the rows of the responses table, oldest first
  statements, \* the statements issued to the database and not yet executed
  faults,     \* the number of storage faults so far
  manager,    \* the NlpManager: registered documents and answers, trained model
  modelFile,  \* what manager.save() wrote last
  teach,      \* the /teach requests
  nash,       \* the /nash request
  loader,     \* loadResponses, started at startup
  learner,    \* autoLearnFromResponses, started by its interval timer
  out         \* the response the last step sent, if it sent one

vars == <<now, apiKeys, nextKey, issued, responses, statements, faults,
          manager, modelFile, teach, nash, loader, learner, out>>

credVars == <<apiKeys, nextKey, issued>>
storeVars == <<responses, statements>>
matcherVars == <<manager, modelFile>>

NoResponse == [op |-> "none"]

\* ------------------------------------------------------------- credentials
\* JSON.stringify writes a Date as an ISO string; new Date(x) reads either back.
ToJSON(d) == IF DOMAIN d = {"date"} THEN [iso |-> d.date] ELSE d
NewDate(x) == IF DOMAIN x = {"iso"} THEN [date |-> x.iso] ELSE x
Later(a, b) == a.date > b.date

\* loadApiKeys(): the parsed file, [] when there is none.
loadApiKeys == apiKeys
\* saveApiKeys(keys): the file content after the write.
saveApiKeys(keys) ==
  [i \in 1..Len(keys) |-> [api_key |-> keys[i].api_key, expiration |-> ToJSON(keys[i].expiration)]]

\* The check with the comparison of the dates not strict.
validateApiKeyNotStrict(apiKey, t) ==
  \E i \in 1..Len(apiKeys) :
    /\ apiKeys[i].api_key = apiKey
    /\ \A j \in 1..(i - 1) : apiKeys[j].api_key # apiKey
    /\ NewDate(apiKeys[i].expiration).date >= t

\* The check without the expiry: any record with the token passes.
validateApiKeyNoExpiry(apiKey, t) ==
  \E i \in 1..Len(apiKeys) : apiKeys[i].api_key = apiKey

\* validateApiKey(apiKey) at time t: the first record with the token decides.
validateApiKey(apiKey, t) ==
  LET keys == loadApiKeys
      found == {i \in 1..Len(keys) : keys[i].api_key = apiKey}
  IN  IF found = {} THEN FALSE
      ELSE LET keyData == keys[CHOOSE i \in found : \A j \in found : i <= j]
           IN  Later(NewDate(keyData.expiration), [date |-> t])

\* The record with the validity window a day short.
NewKeyRecordShort(k, t) ==
  [api_key |-> k, expiration |-> [date |-> t + API_KEY_EXPIRY_DAYS - 1]]

\* The record generateApiKey pushes at time t for token k.
NewKeyRecord(k, t) == [api_key |-> k, expiration |-> [date |-> t + API_KEY_EXPIRY_DAYS]]

\* The filter that keeps every record.
FilterKeepAll(keys, t) == keys

\* The filter with the comparison of the dates not strict.
FilterNotStrict(keys, t) ==
  SelectSeq(keys, LAMBDA key : NewDate(key.expiration).date >= t)

\* The array deleteExpiredApiKeys keeps at time t.
RECURSIVE Filter(_, _)
Filter(keys, t) ==
  IF keys = <<>> THEN <<>>
  ELSE (IF Later(NewDate(Head(keys).expiration), [date |-> t]) THEN <<Head(keys)>> ELSE <<>>)
       \o Filter(Tail(keys), t)

\* generateApiKey writing the new record alone, without the records loaded.
GetApiKeyOverwrite ==
  /\ nextKey < MaxKeys
  /\ LET k == nextKey + 1
     IN  /\ apiKeys' = saveApiKeys(<<NewKeyRecord(k, now)>>)
         /\ nextKey' = k
         /\ issued' = issued \cup {[api_key |-> k, at |-> now]}
         /\ out' = [op |-> "apikey", status |-> 200, apiKey |-> k]
  /\ UNCHANGED <<now, storeVars, faults, matcherVars, teach, nash, loader, learner>>

\* GET /apikey: generateApiKey() and the response.
GetApiKey ==
  /\ nextKey < MaxKeys
  /\ LET k == nextKey + 1
     IN  /\ apiKeys' = saveApiKeys(Append(loadApiKeys, NewKeyRecord(k, now)))
         /\ nextKey' = k
         /\ issued' = issued \cup {[api_key |-> k, at |-> now]}
         /\ out' = [op |-> "apikey", status |-> 200, apiKey |-> k]
  /\ UNCHANGED <<now, storeVars, faults, matcherVars, teach, nash, loader, learner>>

\* GET /api/keys: the file as it is.
GetApiKeys ==
  /\ out' = [op |-> "keys", status |-> 200, keys |-> loadApiKeys]
  /\ UNCHANGED <<now, credVars, storeVars, faults, matcherVars, teach, nash, loader, learner>>

\* The sweep timer: checkExpiredApiKeys() -> deleteExpiredApiKeys().
deleteExpiredApiKeys ==
  /\ apiKeys' = saveApiKeys(Filter(loadApiKeys, now))
  /\ UNCHANGED <<now, nextKey, issued, storeVars, faults, matcherVars,
                 teach, nash, loader, learner>>
  /\ out' = NoResponse

\* A day passes.
Tick ==
  /\ now < MaxTime
  /\ now' = now + 1
  /\ UNCHANGED <<credVars, storeVars, faults, matcherVars, teach, nash, loader, learner>>
  /\ out' = NoResponse

\* ----------------------------------------------------------------- matcher
\* manager.addDocument(lang, utterance, intent)
addDocument(m, lang, utterance, intent) ==
  [m EXCEPT !.docs = @ \cup {<<lang, utterance, intent>>}]
\* manager.addAnswer(lang, intent, answer)
addAnswer(m, lang, intent, answer) ==
  [m EXCEPT !.answers = @ \cup {<<lang, intent, answer>>}]

\* ['en','tl','es','fr'].forEach(lang => { addDocument; addAnswer }) from
\* language number i on.
RECURSIVE RegisterFrom(_, _, _, _)
RegisterFrom(m, i, question, answer) ==
  IF i > Len(Langs) THEN m
  ELSE RegisterFrom(addAnswer(addDocument(m, Langs[i], question, question),
                              Langs[i], question, answer),
                    i + 1, question, answer)
\* The registration that leaves the first language out.
RegisterButFirst(m, question, answer) == RegisterFrom(m, 2, question, answer)

Register(m, question, answer) == RegisterFrom(m, 1, question, answer)

\* manager.train() begun, and finished: the model is rebuilt from the
\* documents registered.
TrainBegin(m) == [m EXCEPT !.training = @ + 1]
TrainEnd(m) == [m EXCEPT !.trained = m.docs, !.training = @ - 1]
\* manager.save()
Save(m) == [docs |-> m.docs, answers |-> m.answers, trained |-> m.trained]

\* The texts the manager compares: it folds case.
Normalize(s) == LowerSeq(Chars(s))

\* manager.process(language, prompt).answer: an answer of an intent whose
\* trained document the prompt matches (any one of them when there are
\* several), None when there is none.
ProcessAnswers(m, language, prompt) ==
  LET intents == {d[3] : d \in {e \in m.trained :
                     e[1] = language /\ Normalize(e[2]) = Normalize(prompt)}}
      found == {a[3] : a \in {b \in m.answers : b[1] = language /\ b[2] \in intents}}
  IN  IF found = {} THEN {None} ELSE found

\* -------------------------------------------------------------- the store
Pair(q, a) == [question |-> q, answer |-> a]

\* The lookup with its two parameters bound in the wrong order.
SelectPairSwapped(rows, q, a) ==
  SelectSeq(rows, LAMBDA r : r.question = a /\ r.answer = q)

\* SELECT answer FROM responses WHERE question = ? AND answer = ?
SelectPair(rows, q, a) == SelectSeq(rows, LAMBDA r : r.question = q /\ r.answer = a)
\* SELECT question FROM responses, mapped to the questions
SelectQuestions(rows) == [i \in 1..Len(rows) |-> rows[i].question]

\* The statements of the connection. sqlite3 hands them to its thread pool
\* in the order they were issued and SQLite runs them one at a time, so the
\* oldest statement executes first; the caller of a lookup resumes later.
NoRow == Pair(NoParam, NoParam)
Select(by) == [op |-> "select", by |-> by, row |-> NoRow]
Insert(by, row) == [op |-> "insert", by |-> by, row |-> row]
TeachTask(r) == <<"teach", r>>
NashTask == <<"nash", 0>>
LoaderTask == <<"loader", 0>>
LearnerTask == <<"learner", 0>>
Executes(by) == statements # <<>> /\ Head(statements) = Select(by)
QueuedInserts == SelectSeq(statements, LAMBDA st : st.op = "insert")

\* The insert that writes its row over the last row of the table.
InsertExecOverwrite ==
  /\ statements # <<>>
  /\ Head(statements).op = "insert"
  /\ responses' = IF responses = <<>> THEN <<Head(statements).row>>
                  ELSE [responses EXCEPT ![Len(responses)] = Head(statements).row]
  /\ statements' = Tail(statements)
  /\ UNCHANGED <<now, credVars, faults, matcherVars, teach, nash, loader, learner>>
  /\ out' = NoResponse

\* stmt.run(question, answer) executes: nothing waits for it.
InsertExec ==
  /\ statements # <<>>
  /\ Head(statements).op = "insert"
  /\ responses' = Append(responses, Head(statements).row)
  /\ statements' = Tail(statements)
  /\ UNCHANGED <<now, credVars, faults, matcherVars, teach, nash, loader, learner>>
  /\ out' = NoResponse

\* stmt.run(question, answer) fails: run was given no callback and prepare's
\* statement has no error listener, so the error goes to the statement's
\* error event and not to the handler that issued it; no row is written.
InsertFail ==
  /\ statements # <<>>
  /\ Head(statements).op = "insert"
  /\ faults < MaxFaults
  /\ faults' = faults + 1
  /\ statements' = Tail(statements)
  /\ LET r == Head(statements).by[2]
     IN  teach' = IF teach[r].pc = "train" THEN [teach EXCEPT ![r].failed = TRUE] ELSE teach
  /\ UNCHANGED <<now, credVars, responses, matcherVars, nash, loader, learner>>
  /\ out' = NoResponse

\* ------------------------------------------------------------------ /teach
\* known and failed are history: the pair was in the table when the request
\* arrived; the request's insert has failed.
IdleTeach == [pc |-> "idle", question |-> NoParam, answer |-> NoParam, exists |-> "none",
              known |-> FALSE, failed |-> FALSE]

\* The requests and tasks between their first await and their end.
InFlight ==
  Cardinality({r \in TeachIds : teach[r].pc # "idle"})
  + (IF nash.pc # "idle" THEN 1 ELSE 0)
  + (IF loader.pc # "done" THEN 1 ELSE 0)
  + (IF learner.pc \notin {"idle", "rejected"} THEN 1 ELSE 0)

\* The rows the table holds or is about to hold: the statements run in order.
Stored == {responses[i] : i \in 1..Len(responses)}
          \cup {QueuedInserts[i].row : i \in 1..Len(QueuedInserts)}

TeachOpen == Cardinality({r \in TeachIds : teach[r].pc \in {"select", "check"}})

TeachResponse(req, status, message) ==
  [op |-> "teach", question |-> req.question, answer |-> req.answer,
   status |-> status, message |-> message]

\* The request arrives: validation, then the duplicate lookup is issued.
TeachStart(r, q, a) ==
  /\ teach[r].pc = "idle"
  /\ IF q = NoParam \/ a = NoParam
     THEN /\ out' = TeachResponse([question |-> q, answer |-> a], 400, "errors")
          /\ UNCHANGED <<teach, statements>>
     ELSE /\ InFlight < MaxInFlight
          /\ Len(responses) + Len(QueuedInserts) + TeachOpen < MaxRows
          /\ statements' = Append(statements, Select(TeachTask(r)))
          /\ teach' = [teach EXCEPT ![r] =
                 [IdleTeach EXCEPT !.pc = "select", !.question = q, !.answer = a,
                                   !.known = Pair(q, a) \in Stored]]
          /\ out' = NoResponse
  /\ UNCHANGED <<now, credVars, responses, faults, matcherVars, nash, loader, learner>>

\* The duplicate lookup executes, or fails.
TeachSelect(r) ==
  /\ teach[r].pc = "select"
  /\ Executes(TeachTask(r))
  /\ statements' = Tail(statements)
  /\ \/ /\ teach' = [teach EXCEPT ![r].pc = "check",
                       ![r].exists = IF Len(SelectPair(responses, teach[r].question,
                                                       teach[r].answer)) > 0
                                      THEN "found" ELSE "absent"]
        /\ UNCHANGED faults
     \/ /\ faults < MaxFaults
        /\ faults' = faults + 1
        /\ teach' = [teach EXCEPT ![r].pc = "check", ![r].exists = "error"]
  /\ UNCHANGED <<now, credVars, responses, matcherVars, nash, loader, learner>>
  /\ out' = NoResponse

\* The handler resumes with the lookup's result: answers, or queues the
\* insert, registers the pair in every language and starts a train.
TeachInsert(r) ==
  /\ teach[r].pc = "check"
  /\ IF teach[r].exists = "error"
     THEN /\ out' = TeachResponse(teach[r], 500, "Error training the chatbot")
          /\ teach' = [teach EXCEPT ![r] = IdleTeach]
          /\ UNCHANGED <<storeVars, matcherVars>>
     ELSE IF teach[r].exists = "found"
     THEN /\ out' = TeachResponse(teach[r], 200, "This answer already exists for the question")
          /\ teach' = [teach EXCEPT ![r] = IdleTeach]
          /\ UNCHANGED <<storeVars, matcherVars>>
     ELSE /\ statements' = Append(statements,
                 Insert(TeachTask(r), Pair(teach[r].question, teach[r].answer)))
          /\ manager' = TrainBegin(Register(manager, teach[r].question, teach[r].answer))
          /\ teach' = [teach EXCEPT ![r].pc = "train"]
          /\ out' = NoResponse
          /\ UNCHANGED <<responses, modelFile>>
  /\ UNCHANGED <<now, credVars, faults, nash, loader, learner>>

\* The train finishes: save, respond.
TeachTrained(r) ==
  /\ teach[r].pc = "train"
  /\ manager' = TrainEnd(manager)
  /\ modelFile' = Save(manager')
  /\ out' = TeachResponse(teach[r], 200, "Training successful")
  /\ teach' = [teach EXCEPT ![r] = IdleTeach]
  /\ UNCHANGED <<now, credVars, storeVars, faults, nash, loader, learner>>

\* ------------------------------------------------------------------- /nash
IdleNash == [pc |-> "idle", prompt |-> NoParam, apiKey |-> NoKey, language |-> "en"]

NashResponse(req, status, source, response) ==
  [op |-> "nash", prompt |-> req.prompt, apiKey |-> req.apiKey, language |-> req.language,
   status |-> status, source |-> source, response |-> response]

\* The request arrives: validation, then the credential check, then
\* manager.process is called.
NashStart(p, k, l) ==
  /\ nash.pc = "idle"
  /\ LET req == [IdleNash EXCEPT !.prompt = p, !.apiKey = k,
                                 !.language = IF l = NoParam THEN "en" ELSE l]
     IN  IF p = NoParam \/ k = NoKey
         THEN /\ out' = NashResponse(req, 400, "none", [kind |-> "errors"])
              /\ UNCHANGED nash
         ELSE IF ~validateApiKey(k, now)
         THEN /\ out' = NashResponse(req, 403, "none",
                                     [kind |-> "message", text |-> "Invalid API key"])
              /\ UNCHANGED nash
         ELSE /\ InFlight < MaxInFlight
              /\ nash' = [req EXCEPT !.pc = "process"]
              /\ out' = NoResponse
  /\ UNCHANGED <<now, credVars, storeVars, faults, matcherVars, teach, loader, learner>>

\* The handler with the time pattern tried before the matcher's answer.
NashResolveTimeFirst ==
  /\ nash.pc = "process"
  /\ \E answer \in ProcessAnswers(manager, nash.language, nash.prompt) :
       LET timezone == timezoneMatch(Chars(nash.prompt))
       IN  IF timezone # NoMatch
           THEN /\ out' = NashResponse(nash, 200, "temporal",
                            generateTimeResponse(SpacesToUnderscores(timezone), now))
                /\ nash' = IdleNash
                /\ UNCHANGED statements
           ELSE IF answer # None
           THEN /\ out' = NashResponse(nash, 200, "matcher",
                                       [kind |-> "answer", text |-> answer])
                /\ nash' = IdleNash
                /\ UNCHANGED statements
           ELSE /\ nash' = [nash EXCEPT !.pc = "lookup"]
                /\ statements' = Append(statements, Select(NashTask))
                /\ out' = NoResponse
  /\ UNCHANGED <<now, credVars, responses, faults, matcherVars, teach, loader, learner>>

\* The handler with the time sentence for a zone that exists only: a zone
\* that does not falls through to the lookup.
NashResolveValidZoneOnly ==
  /\ nash.pc = "process"
  /\ \E answer \in ProcessAnswers(manager, nash.language, nash.prompt) :
       LET timezone == timezoneMatch(Chars(nash.prompt))
       IN  IF answer # None
           THEN /\ out' = NashResponse(nash, 200, "matcher",
                                       [kind |-> "answer", text |-> answer])
                /\ nash' = IdleNash
                /\ UNCHANGED statements
           ELSE IF timezone # NoMatch /\ ZoneExists(SpacesToUnderscores(timezone))
           THEN /\ out' = NashResponse(nash, 200, "temporal",
                            generateTimeResponse(SpacesToUnderscores(timezone), now))
                /\ nash' = IdleNash
                /\ UNCHANGED statements
           ELSE /\ nash' = [nash EXCEPT !.pc = "lookup"]
                /\ statements' = Append(statements, Select(NashTask))
                /\ out' = NoResponse
  /\ UNCHANGED <<now, credVars, responses, faults, matcherVars, teach, loader, learner>>

\* manager.process returns and the handler resumes: the matcher's answer,
\* else the time sentence, else the lookup of the questions is issued.
NashResolve ==
  /\ nash.pc = "process"
  /\ \E answer \in ProcessAnswers(manager, nash.language, nash.prompt) :
       LET timezone == timezoneMatch(Chars(nash.prompt))
       IN  IF answer # None
           THEN /\ out' = NashResponse(nash, 200, "matcher",
                                       [kind |-> "answer", text |-> answer])
                /\ nash' = IdleNash
                /\ UNCHANGED statements
           ELSE IF timezone # NoMatch
           THEN /\ out' = NashResponse(nash, 200, "temporal",
                            generateTimeResponse(SpacesToUnderscores(timezone), now))
                /\ nash' = IdleNash
                /\ UNCHANGED statements
           ELSE /\ nash' = [nash EXCEPT !.pc = "lookup"]
                /\ statements' = Append(statements, Select(NashTask))
                /\ out' = NoResponse
  /\ UNCHANGED <<now, credVars, responses, faults, matcherVars, teach, loader, learner>>

\* The handler that reports a search with no hit as an error.
NashLookupMissIsError ==
  /\ nash.pc = "lookup"
  /\ Executes(NashTask)
  /\ statements' = Tail(statements)
  /\ \/ /\ LET closestMatch == FuseSearch(SelectQuestions(responses), nash.prompt)
           IN  out' =
                 IF Len(closestMatch) > 0
                 THEN NashResponse(nash, 200, "fuzzy",
                                   [kind |-> "didYouMean", item |-> closestMatch[1]])
                 ELSE NashResponse(nash, 500, "none",
                        [kind |-> "message", text |-> "Error retrieving responses"])
        /\ UNCHANGED faults
     \/ /\ faults < MaxFaults
        /\ faults' = faults + 1
        /\ out' = NashResponse(nash, 500, "none",
                               [kind |-> "message", text |-> "Error retrieving responses"])
  /\ nash' = IdleNash
  /\ UNCHANGED <<now, credVars, responses, matcherVars, teach, loader, learner>>

\* The lookup executes and the handler resumes: the closest question, else
\* the default message; 500 when the lookup fails.
NashLookup ==
  /\ nash.pc = "lookup"
  /\ Executes(NashTask)
  /\ statements' = Tail(statements)
  /\ \/ /\ LET closestMatch == FuseSearch(SelectQuestions(responses), nash.prompt)
           IN  out' =
                 IF Len(closestMatch) > 0
                 THEN NashResponse(nash, 200, "fuzzy",
                                   [kind |-> "didYouMean", item |-> closestMatch[1]])
                 ELSE NashResponse(nash, 200, "default", [kind |-> "dontKnow"])
        /\ UNCHANGED faults
     \/ /\ faults < MaxFaults
        /\ faults' = faults + 1
        /\ out' = NashResponse(nash, 500, "none",
                               [kind |-> "message", text |-> "Error retrieving responses"])
  /\ nash' = IdleNash
  /\ UNCHANGED <<now, credVars, responses, matcherVars, teach, loader, learner>>

\* ----------------------------------------------------------- loadResponses
\* rows.forEach(row => register in every language)
RECURSIVE RegisterRows(_, _)
RegisterRows(m, rows) ==
  IF rows = <<>> THEN m
  ELSE RegisterRows(Register(m, Head(rows).question, Head(rows).answer), Tail(rows))

\* SELECT question, answer FROM responses executes, or fails.
LoaderSelect ==
  /\ loader.pc = "select"
  /\ Executes(LoaderTask)
  /\ statements' = Tail(statements)
  /\ \/ /\ loader' = [pc |-> "rows", rows |-> responses]
        /\ UNCHANGED faults
     \/ /\ faults < MaxFaults
        /\ faults' = faults + 1
        /\ loader' = [pc |-> "error", rows |-> <<>>]
  /\ UNCHANGED <<now, credVars, responses, matcherVars, teach, nash, learner>>
  /\ out' = NoResponse

\* loadResponses resumes: registers the rows and starts a train; the catch
\* logs a failed lookup.
LoaderRegister ==
  /\ loader.pc \in {"rows", "error"}
  /\ IF loader.pc = "error"
     THEN /\ loader' = [pc |-> "done", rows |-> <<>>]
          /\ UNCHANGED manager
     ELSE /\ manager' = TrainBegin(RegisterRows(manager, loader.rows))
          /\ loader' = [pc |-> "train", rows |-> <<>>]
  /\ UNCHANGED <<now, credVars, storeVars, faults, modelFile, teach, nash, learner>>
  /\ out' = NoResponse

LoaderTrained ==
  /\ loader.pc = "train"
  /\ manager' = TrainEnd(manager)
  /\ modelFile' = Save(manager')
  /\ loader' = [pc |-> "done", rows |-> <<>>]
  /\ UNCHANGED <<now, credVars, storeVars, faults, teach, nash, learner>>
  /\ out' = NoResponse

\* -------------------------------------------------- autoLearnFromResponses
\* responsesMap: the answers of each question, in row order.
responsesMap(rows) ==
  [q \in {rows[i].question : i \in 1..Len(rows)} |->
     SelectSeq(rows, LAMBDA r : r.question = q)]
\* [...new Set(answers)]
uniqueAnswers(rs) == {rs[i].answer : i \in 1..Len(rs)}

\* for (question in responsesMap) uniqueAnswers.forEach(addAnswer in the four
\* languages): answers only, no document.
LearnAnswers(m, rows) ==
  LET map == responsesMap(rows)
  IN  [m EXCEPT !.answers = @ \cup
        UNION {{<<lang, q, a>> : lang \in LangSet, a \in uniqueAnswers(map[q])} :
               q \in DOMAIN map}]

\* The interval timer fires: the lookup is issued.
LearnStart ==
  /\ learner.pc \in {"idle", "rejected"}
  /\ InFlight < MaxInFlight
  /\ learner' = [pc |-> "select", rows |-> <<>>]
  /\ statements' = Append(statements, Select(LearnerTask))
  /\ UNCHANGED <<now, credVars, responses, faults, matcherVars, teach, nash, loader>>
  /\ out' = NoResponse

\* The lookup executes, or fails: nothing catches the rejection.
LearnSelect ==
  /\ learner.pc = "select"
  /\ Executes(LearnerTask)
  /\ statements' = Tail(statements)
  /\ \/ /\ learner' = [pc |-> "rows", rows |-> responses]
        /\ UNCHANGED faults
     \/ /\ faults < MaxFaults
        /\ faults' = faults + 1
        /\ learner' = [pc |-> "rejected", rows |-> <<>>]
  /\ UNCHANGED <<now, credVars, responses, matcherVars, teach, nash, loader>>
  /\ out' = NoResponse

LearnRegister ==
  /\ learner.pc = "rows"
  /\ manager' = TrainBegin(LearnAnswers(manager, learner.rows))
  /\ learner' = [learner EXCEPT !.pc = "train"]
  /\ UNCHANGED <<now, credVars, storeVars, faults, modelFile, teach, nash, loader>>
  /\ out' = NoResponse

LearnTrained ==
  /\ learner.pc = "train"
  /\ manager' = TrainEnd(manager)
  /\ modelFile' = Save(manager')
  /\ learner' = [pc |-> "idle", rows |-> <<>>]
  /\ UNCHANGED <<now, credVars, storeVars, faults, teach, nash, loader>>
  /\ out' = NoResponse

\* ----------------------------------------------------------- specification
\* The process starts: the manager is new, loadResponses has issued its
\* lookup, the server listens. The table and the key file are what earlier
\* runs left.
InitRows == {<<>>, <<Pair("hello", "hi")>>}

Init ==
  /\ now = 0
  /\ apiKeys = <<>>
  /\ nextKey = 0
  /\ issued = {}
  /\ responses \in InitRows
  /\ statements = <<Select(LoaderTask)>>
  /\ faults = 0
  /\ manager = [docs |-> {}, answers |-> {}, trained |-> {}, training |-> 0]
  /\ modelFile = [docs |-> {}, answers |-> {}, trained |-> {}]
  /\ teach = [r \in TeachIds |-> IdleTeach]
  /\ nash = IdleNash
  /\ loader = [pc |-> "select", rows |-> <<>>]
  /\ learner = [pc |-> "idle", rows |-> <<>>]
  /\ out = NoResponse

\* The requests that may arrive.
Teach(ids, qs, as) ==
  \/ \E r \in ids, q \in qs, a \in as : TeachStart(r, q, a)
  \/ \E r \in ids : TeachSelect(r)
  \/ \E r \in ids : TeachInsert(r)
  \/ \E r \in ids : TeachTrained(r)

Nash(ps, ks, ls) ==
  \/ \E p \in ps, k \in ks, l \in ls : NashStart(p, k, l)
  \/ NashResolve
  \/ NashLookup

Credentials == Tick \/ GetApiKey \/ deleteExpiredApiKeys
Loader == LoaderSelect \/ LoaderRegister \/ LoaderTrained
Learner == LearnStart \/ LearnSelect \/ LearnRegister \/ LearnTrained

Next ==
  \/ Credentials
  \/ GetApiKeys
  \/ InsertExec
  \/ InsertFail
  \/ Teach(TeachIds, Questions \cup {NoParam}, Answers \cup {NoParam})
  \/ Nash(Prompts \cup {NoParam}, 0..MaxKeys, NashLangs)
  \/ Loader
  \/ Learner

\* The whole service.
Spec == Init /\ [][Next]_vars

\* The knowledge store and the matcher under concurrent /teach requests, the
\* startup load and the learning timer.
NextStore ==
  \/ InsertExec
  \/ Teach(TeachIds, Questions \cup {NoParam}, Answers \cup {NoParam})
  \/ Loader
  \/ Learner
SpecStore == Init /\ [][NextStore]_vars

\* The credential file over the days, with the requests it gates and a
\* /teach beside them.
NextCred ==
  \/ Credentials
  \/ Nash({"zzz", NoParam}, 0..MaxKeys, {NoParam})
  \/ Teach({1}, {"hello"}, {"yo", NoParam})
  \/ InsertExec
  \/ Loader
SpecCred == Init /\ [][NextCred]_vars

\* The resolution pipeline over what /teach and the startup load make known.
NextPipe ==
  \/ GetApiKey
  \/ Nash(Prompts \cup {NoParam}, 0..1, NashLangs)
  \/ Teach({1}, Questions, Answers)
  \/ InsertExec
  \/ Loader
SpecPipe == Init /\ [][NextPipe]_vars

\* The matcher under everything that registers and trains, with a /nash
\* request resolving beside it.
NextMatch ==
  \/ GetApiKey
  \/ Nash({"hello"}, {1}, NashLangs)
  \/ Teach(TeachIds, {"hello"}, Answers)
  \/ InsertExec
  \/ Loader
  \/ Learner
SpecMatch == Init /\ [][NextMatch]_vars

\* /teach over a store whose lookups and inserts may fail.
NextFault ==
  \/ InsertExec
  \/ InsertFail
  \/ Teach(TeachIds, {"hello"}, Answers \cup {NoParam})
  \/ Loader
SpecFault == Init /\ [][NextFault]_vars

\* Every operation of the service beside one /teach at a time.
NextFrame ==
  \/ Credentials
  \/ GetApiKeys
  \/ Nash({"zzz"}, {1}, {NoParam})
  \/ Teach({1}, {"hello"}, Answers)
  \/ InsertExec
  \/ Loader
  \/ Learner
SpecFrame == Init /\ [][NextFrame]_vars

\* The key file over the days, with the requests that read it. setInterval
\* fires the sweep again and again for as long as the process runs.
NextLife ==
  \/ Credentials
  \/ GetApiKeys
  \/ Nash({"zzz"}, 0..MaxKeys, {NoParam})
  \/ Loader
SpecLife == Init /\ [][NextLife]_vars /\ WF_vars(deleteExpiredApiKeys)

\* ------------------------------------------------------------------ claims
Range(f) == {f[i] : i \in DOMAIN f}
Count(rows, q, a) == Cardinality({i \in 1..Len(rows) : rows[i] = Pair(q, a)})

AlreadyExists == "This answer already exists for the question"

\* C1: a /teach that answers "Training successful" leaves its pair stored or
\* its insert queued; a /teach of a pair that is stored or queued when the
\* request arrives (an earlier teach of the pair has run to completion)
\* finds the pair, answers 200 "already exists", and leaves the table, the
\* queued statements, the manager and its saved model as they were: nothing
\* is registered, no train starts, the pair stays stored once.
C1_TeachTwiceAlreadyExists ==
  [][\A r \in TeachIds :
       /\ (out'.op = "teach" /\ out'.message = "Training successful")
          => Pair(out'.question, out'.answer) \in Stored'
       /\ (teach[r].known /\ teach[r].pc = "select" /\ teach'[r].pc = "check"
             /\ faults' = faults)
          => teach'[r].exists = "found"
       /\ (teach[r].known /\ teach[r].pc = "check" /\ teach[r].exists # "error"
             /\ teach'[r] # teach[r])
          => /\ out' = TeachResponse(teach[r], 200, AlreadyExists)
             /\ teach'[r].pc = "idle"
             /\ responses' = responses
             /\ statements' = statements
             /\ manager' = manager
             /\ modelFile' = modelFile]_vars

\* The second teach of ("hello", "yo"), a pair only a teach of this run can
\* have stored, has answered "already exists" and the pair is stored once.
C1_Witness ==
  /\ out = [op |-> "teach", question |-> "hello", answer |-> "yo",
            status |-> 200, message |-> AlreadyExists]
  /\ Count(responses, "hello", "yo") = 1
  /\ statements = <<>>

\* C2: the table never holds two rows equal in question and answer.
C2_NoDuplicatePairs ==
  \A i, j \in 1..Len(responses) : i # j => responses[i] # responses[j]

\* The tokens a request may carry, issued or not.
Tokens == 0..(MaxKeys + 1)
\* A record with the token exists and its expiresAt is strictly later than now.
HasValidRecord(keys, token, t) ==
  \E i \in 1..Len(keys) : keys[i].api_key = token /\ keys[i].expiration.iso > t
\* The record the file holds for an issued key.
RecordOf(r) ==
  [api_key |-> r.api_key, expiration |-> [iso |-> r.at + API_KEY_EXPIRY_DAYS]]

\* C3: validateApiKey(token) is true exactly when the file holds a record
\* with that token whose expiresAt is strictly in the future.
C3_IsValidIff ==
  \A token \in Tokens : validateApiKey(token, now) <=> HasValidRecord(apiKeys, token, now)

\* The file holds an expired record the sweep has not removed, which is not
\* valid, beside a record that is.
C3_Witness ==
  \E i, j \in 1..Len(apiKeys) :
    /\ apiKeys[i].expiration.iso <= now
    /\ ~validateApiKey(apiKeys[i].api_key, now)
    /\ validateApiKey(apiKeys[j].api_key, now)

\* C4: a /nash request answered on arrival is answered 400 when a parameter
\* is missing, whatever its key, and else 403 for a key with no unexpired
\* record; it runs no stage and leaves the table, the statements, the
\* manager and the key file as they were. A request that goes on to the
\* pipeline has its parameters and an unexpired record.
C4_RejectedBeforePipeline ==
  [][/\ (nash.pc = "idle" /\ out'.op = "nash")
        => /\ out'.status \in {400, 403}
           /\ out'.source = "none"
           /\ out'.status = 400 <=> (out'.prompt = NoParam \/ out'.apiKey = NoKey)
           /\ out'.status = 403 => ~HasValidRecord(apiKeys, out'.apiKey, now)
           /\ nash' = nash
           /\ UNCHANGED <<responses, statements, manager, modelFile, apiKeys>>
     /\ (nash.pc = "idle" /\ nash'.pc # "idle")
        => /\ nash'.prompt # NoParam
           /\ nash'.apiKey # NoKey
           /\ HasValidRecord(apiKeys, nash'.apiKey, now)]_vars

\* A request with an expired key, whose record is still in the file, has
\* been answered 403 while the table holds a taught pair.
C4_Witness ==
  /\ out.op = "nash"
  /\ out.status = 403
  /\ \E i \in 1..Len(apiKeys) : apiKeys[i].api_key = out.apiKey
  /\ Pair("hello", "yo") \in Range(responses)

\* C8: the sweep leaves exactly the unexpired records, as they were and in
\* their order; a token valid before it is valid after it; a second sweep
\* at once changes nothing.
C8_SweepRemovesExpiredOnly ==
  [][deleteExpiredApiKeys
       => /\ apiKeys' = SelectSeq(apiKeys, LAMBDA rec : rec.expiration.iso > now)
          /\ \A token \in Tokens :
               HasValidRecord(apiKeys, token, now) => HasValidRecord(apiKeys', token, now)
          /\ saveApiKeys(Filter(apiKeys', now)) = apiKeys']_vars

\* A sweep has removed an issued key and the file still holds an unexpired one.
C8_Witness ==
  /\ \E r \in issued : RecordOf(r) \notin Range(apiKeys)
  /\ \E i \in 1..Len(apiKeys) : apiKeys[i].expiration.iso > now

\* C9: no update of the key file is lost: the file holds the record of every
\* issued key that has not expired, every record it holds is the whole
\* record of an issued key, and the records are in the order of issue.
C9_NoLostUpdate ==
  /\ \A r \in issued :
       r.at + API_KEY_EXPIRY_DAYS > now => RecordOf(r) \in Range(apiKeys)
  /\ \A i \in 1..Len(apiKeys) : \E r \in issued : apiKeys[i] = RecordOf(r)
  /\ \A i, j \in 1..Len(apiKeys) : i < j => apiKeys[i].api_key < apiKeys[j].api_key

\* The second key was generated once the first had expired, the sweep has
\* removed the first, and a /nash request with the second has passed the check.
C9_Witness ==
  /\ Len(apiKeys) = 1
  /\ apiKeys[1].api_key = 2
  /\ nash.pc # "idle"
  /\ nash.apiKey = 2

\* C10: /apikey appends the one record (token, now + 7 days) to the file as it
\* was and answers 200 with that token, a token no record had; an issued key
\* is valid on every day before the seventh after its issue.
C10_GenerateThenValid ==
  /\ [](\A r \in issued :
          now < r.at + API_KEY_EXPIRY_DAYS => validateApiKey(r.api_key, now))
  /\ [][GetApiKey
          => /\ out'.op = "apikey"
             /\ out'.status = 200
             /\ \A i \in 1..Len(apiKeys) : apiKeys[i].api_key # out'.apiKey
             /\ apiKeys' = Append(apiKeys,
                  [api_key |-> out'.apiKey,
                   expiration |-> [iso |-> now + API_KEY_EXPIRY_DAYS]])]_vars

\* The first key is valid on the sixth day after its issue, after another
\* generate, a sweep that removed nothing of it, and a teach.
C10_Witness ==
  /\ \E r \in issued : r.api_key = 1 /\ now = r.at + API_KEY_EXPIRY_DAYS - 1
  /\ validateApiKey(1, now)
  /\ nextKey = 2
  /\ Pair("hello", "yo") \in Range(responses)

\* What the matcher can return for the request in flight, and the capture of
\* the time pattern in its prompt.
MatcherAnswers == ProcessAnswers(manager, nash.language, nash.prompt)
TimeCapture == timezoneMatch(Chars(nash.prompt))
Resumes == nash' # nash

\* C5: when the matcher returns an answer for an authorised query, the
\* response is 200 with that answer, whatever else the prompt matches, and no
\* lookup is issued; only such a query is answered from the matcher.
C5_MatcherFirst ==
  [][/\ (nash.pc = "process" /\ Resumes /\ MatcherAnswers # {None})
        => /\ out'.op = "nash"
           /\ out'.prompt = nash.prompt
           /\ out'.language = nash.language
           /\ out'.status = 200
           /\ out'.source = "matcher"
           /\ out'.response.kind = "answer"
           /\ out'.response.text \in MatcherAnswers
           /\ nash'.pc = "idle"
           /\ statements' = statements
     /\ (out'.op = "nash" /\ out'.source = "matcher")
        => nash.pc = "process" /\ MatcherAnswers # {None}]_vars

\* A prompt that is a taught question and matches the time pattern has been
\* answered from the matcher.
C5_Witness ==
  /\ out.op = "nash"
  /\ out.source = "matcher"
  /\ timezoneMatch(Chars(out.prompt)) # NoMatch

\* C6: when the matcher returns nothing and the prompt matches the time
\* pattern, the response is 200 with the time sentence of the zone, or the
\* invalid-timezone message when the zone does not exist, and no lookup is
\* issued; no query whose prompt matches the pattern is ever in the lookup.
C6_TemporalShortCircuit ==
  [][/\ (nash.pc = "process" /\ Resumes /\ MatcherAnswers = {None}
           /\ TimeCapture # NoMatch)
        => LET zone == SpacesToUnderscores(TimeCapture)
           IN  /\ out'.op = "nash"
               /\ out'.prompt = nash.prompt
               /\ out'.status = 200
               /\ out'.source = "temporal"
               /\ out'.response =
                    IF ZoneExists(zone)
                    THEN [kind |-> "time", zone |-> UnderscoresToSpaces(zone), at |-> now]
                    ELSE [kind |-> "invalidTimezone"]
               /\ nash'.pc = "idle"
               /\ statements' = statements
               /\ faults' = faults
     /\ nash'.pc = "lookup" => timezoneMatch(Chars(nash'.prompt)) = NoMatch]_vars

\* The invalid-timezone message has answered a prompt that a stored question
\* is close enough to for the fuzzy search to find.
C6_Witness ==
  /\ out.op = "nash"
  /\ out.response = [kind |-> "invalidTimezone"]
  /\ Len(FuseSearch(SelectQuestions(responses), out.prompt)) > 0

\* The kind of response of each outcome.
KindOf(source) ==
  CASE source = "matcher" -> {"answer"}
    [] source = "temporal" -> {"time", "invalidTimezone"}
    [] source = "fuzzy" -> {"didYouMean"}
    [] source = "default" -> {"dontKnow"}

\* C7: a query in the lookup has no matcher answer and no time pattern, and a
\* query without them goes to the lookup; when the lookup does not fail the
\* response is 200, "did you mean" with a stored question of the best score
\* when some stored question is within the threshold, the don't-know message
\* otherwise. Every response 200 has one of the four outcomes, and a query
\* ends with 200, or with 500 on a storage fault.
C7_FuzzyThenDefault ==
  [][/\ (nash.pc = "lookup" /\ Resumes /\ faults' = faults)
        => LET qs == SelectQuestions(responses)
               score(i) == FuseScore100(Chars(nash.prompt), Chars(qs[i]))
               near == {i \in 1..Len(qs) : score(i) <= FuseThreshold100}
           IN  /\ out'.op = "nash"
               /\ out'.prompt = nash.prompt
               /\ out'.status = 200
               /\ IF near # {}
                  THEN /\ out'.source = "fuzzy"
                       /\ out'.response.kind = "didYouMean"
                       /\ \E i \in near :
                            /\ out'.response.item = qs[i]
                            /\ \A j \in 1..Len(qs) : score(i) <= score(j)
                  ELSE /\ out'.source = "default"
                       /\ out'.response = [kind |-> "dontKnow"]
     /\ (nash.pc = "process" /\ Resumes)
        => (nash'.pc = "lookup" <=> (MatcherAnswers = {None} /\ TimeCapture = NoMatch))
     /\ (out'.op = "nash" /\ out'.status = 200)
        => /\ out'.source \in {"matcher", "temporal", "fuzzy", "default"}
           /\ out'.response.kind \in KindOf(out'.source)
     /\ (nash.pc # "idle" /\ nash'.pc = "idle")
        => /\ out'.op = "nash"
           /\ out'.status = 200 \/ (out'.status = 500 /\ faults' = faults + 1)]_vars

\* "hellp" has been answered "did you mean hello" from a table that also
\* holds a question far from it.
C7_Witness ==
  /\ out.op = "nash"
  /\ out.prompt = "hellp"
  /\ out.response = [kind |-> "didYouMean", item |-> "hello"]
  /\ \E i \in 1..Len(responses) : responses[i].question = "Current time in UTC"

\* C11: at most one train() of the manager is in flight, whoever started it:
\* the startup load, a /teach request or the learning timer.
C11_AtMostOneTrain == manager.training <= 1

\* C12: manager.process of a /nash request never runs while a train() is in
\* flight.
C12_NoResolveDuringTrain == ~(nash.pc = "process" /\ manager.training > 0)

\* The languages in which the manager holds a triple of the set.
LangsOf(triples, intent, text) == {l \in LangSet : <<l, intent, text>> \in triples}
Uniform(langs) == langs = {} \/ langs = LangSet

Success == "Training successful"

\* C14: when /teach answers "Training successful" for (q, a), the row (q, a)
\* is in the table, q is a registered document with the answer a in all four
\* languages, and the train the handler awaited has put q in the model.
C14_TeachOrdering ==
  (out.op = "teach" /\ out.message = Success)
    => /\ Pair(out.question, out.answer) \in Range(responses)
       /\ LangsOf(manager.docs, out.question, out.question) = LangSet
       /\ LangsOf(manager.answers, out.question, out.answer) = LangSet
       /\ LangsOf(manager.trained, out.question, out.question) = LangSet

\* C15: a /teach whose duplicate lookup failed answers 500 and leaves the
\* table, the statements and the manager as they were; a /teach whose insert
\* failed has not registered its pair, has started no train, and answers 500.
C15_StorageFailure500 ==
  [][\A r \in TeachIds :
       /\ (teach[r].pc = "check" /\ teach[r].exists = "error" /\ teach'[r] # teach[r])
          => /\ out' = TeachResponse(teach[r], 500, "Error training the chatbot")
             /\ UNCHANGED <<responses, statements, manager, modelFile>>
       /\ teach'[r].failed
          => /\ LangsOf(manager'.answers, teach'[r].question, teach'[r].answer) = {}
             /\ teach'[r].pc # "train"
       /\ (teach[r].failed /\ teach'[r].pc = "idle")
          => out'.op = "teach" /\ out'.status = 500]_vars

\* C16: a learning cycle whose lookup fails ends as a cycle that was skipped,
\* with the manager and the table as they were, and never as a rejection
\* that nothing handles.
C16_BackgroundErrorHandled ==
  [][(learner.pc = "select" /\ learner' # learner /\ faults' = faults + 1)
       => /\ learner'.pc = "idle"
          /\ UNCHANGED <<responses, manager, modelFile>>]_vars

\* C17: when a learning cycle completes, the startup load being over, every
\* row the cycle read is a registered document with its answer in all four
\* languages, the trained model holds it, and manager.process can return
\* the answer for the question in every language.
C17_Reconciliation ==
  [][(learner.pc = "train" /\ learner'.pc = "idle" /\ loader.pc = "done")
       => \A i \in 1..Len(learner.rows) :
            LET q == learner.rows[i].question
                a == learner.rows[i].answer
            IN  /\ LangsOf(manager'.docs, q, q) = LangSet
                /\ LangsOf(manager'.answers, q, a) = LangSet
                /\ LangsOf(manager'.trained, q, q) = LangSet
                /\ \A l \in LangSet : a \in ProcessAnswers(manager', l, q)]_vars

\* C18: every step leaves the rows of the table where and as they were; a
\* step that adds to the table adds the one row of the oldest insert, at the
\* end; an insert is issued only by a /teach whose duplicate lookup found no
\* row, for its own pair and once, and that lookup found none because the
\* table held none; /nash, /apikey, /api/keys, the sweep and the learning
\* cycle neither write the table nor issue an insert.
C18_StoreOnlyGrows ==
  [][/\ \A i \in 1..Len(responses) :
          i <= Len(responses') /\ responses'[i] = responses[i]
     /\ responses' # responses
          => /\ statements # <<>>
             /\ Head(statements).op = "insert"
             /\ Head(statements).by[1] = "teach"
             /\ responses' = Append(responses, Head(statements).row)
     /\ QueuedInserts' # QueuedInserts /\ responses' = responses
          => \E r \in TeachIds :
               /\ teach[r].pc = "check"
               /\ teach[r].exists = "absent"
               /\ QueuedInserts' = Append(QueuedInserts,
                    Insert(TeachTask(r), Pair(teach[r].question, teach[r].answer)))
     /\ \A r \in TeachIds :
          (teach[r].pc = "select" /\ teach'[r].exists = "absent")
             => Pair(teach[r].question, teach[r].answer) \notin Range(responses)
     /\ (\/ out'.op \in {"nash", "apikey", "keys"}
         \/ nash' # nash
         \/ learner' # learner
         \/ loader' # loader
         \/ apiKeys' # apiKeys
         \/ now' # now)
          => responses' = responses /\ QueuedInserts' = QueuedInserts]_vars

\* A /teach has added ("hello", "yo") behind the row the table started with,
\* a key has been swept from the file, the model has been trained and saved,
\* and /api/keys has just answered.
C18_Witness ==
  /\ responses = <<Pair("hello", "hi"), Pair("hello", "yo")>>
  /\ out.op = "keys"
  /\ \E r \in issued : RecordOf(r) \notin Range(apiKeys)
  /\ LangsOf(modelFile.answers, "hello", "hi") = LangSet

\* C19: a /nash request past the credential check is answered 500 only from
\* the lookup of the fuzzy stage, and only when that lookup fails; with a
\* matcher answer or a time pattern it is answered 200 without a statement
\* issued to the store, so whatever the store's condition; a lookup that
\* does not fail is answered 200 whether the search finds a question or not.
C19_ErrorOnlyInLookup ==
  [][/\ (out'.op = "nash" /\ out'.status = 500)
        => /\ nash.pc = "lookup"
           /\ faults' = faults + 1
           /\ out'.response = [kind |-> "message", text |-> "Error retrieving responses"]
     /\ (nash.pc = "process" /\ Resumes
           /\ (MatcherAnswers # {None} \/ TimeCapture # NoMatch))
        => /\ out'.op = "nash"
           /\ out'.status = 200
           /\ statements' = statements
           /\ faults' = faults
     /\ (nash.pc = "lookup" /\ Resumes /\ faults' = faults)
        => /\ out'.status = 200
           /\ out'.source \in {"fuzzy", "default"}
     /\ (nash.pc = "process" /\ Resumes) => faults' = faults]_vars

\* A query has been answered 500 although the table holds a question the
\* search would have found for it.
C19_Witness ==
  /\ out.op = "nash"
  /\ out.status = 500
  /\ Len(FuseSearch(SelectQuestions(responses), out.prompt)) > 0

\* The file holds a record of the token; the token's record has expired.
InFile(token) == \E i \in 1..Len(apiKeys) : apiKeys[i].api_key = token
Expired(token) ==
  \E i \in 1..Len(apiKeys) : apiKeys[i].api_key = token /\ apiKeys[i].expiration.iso <= now

\* C20: a key is rejected by validateApiKey on every day from its expiry on,
\* so a /nash request carrying it is answered 403 and never enters the
\* pipeline; a record leaves the file only in a sweep and only when it has
\* expired; /api/keys answers with every record of the file, expired or not,
\* and changes nothing; and an expired record in the file is eventually
\* removed, the sweep timer firing.
C20_ExpiredKeyLifecycle ==
  /\ [](\A r \in issued :
          now >= r.at + API_KEY_EXPIRY_DAYS => ~validateApiKey(r.api_key, now))
  /\ [][/\ \A i \in 1..Len(apiKeys) :
             apiKeys[i] \notin Range(apiKeys')
               => apiKeys[i].expiration.iso <= now /\ deleteExpiredApiKeys
        /\ out'.op = "keys"
             => /\ out'.status = 200
                /\ out'.keys = apiKeys
                /\ UNCHANGED <<apiKeys, now, responses, statements, manager>>
        /\ (nash.pc = "idle" /\ out'.op = "nash" /\ out'.prompt # NoParam
              /\ Expired(out'.apiKey))
             => out'.status = 403
        /\ (nash.pc = "idle" /\ nash'.pc # "idle") => ~Expired(nash'.apiKey)]_vars
  /\ \A token \in 1..MaxKeys : Expired(token) ~> ~InFile(token)

\* /api/keys has just answered with a record that has expired, beside one
\* that has not.
C20_Witness ==
  /\ out.op = "keys"
  /\ \E i, j \in 1..Len(out.keys) :
       /\ out.keys[i].expiration.iso <= now
       /\ out.keys[j].expiration.iso > now
  /\ out.keys = apiKeys

====
